---- MODULE Spec2Model ----
(***************************************************************************)
(* Model of the manuscript polisher (src/app.py, src/utils.py): the two    *)
(* chunkers, the retrying edit call, the style-rule table, the DOCX        *)
(* builder and the "Process Manuscript" driver loop.                       *)
(*                                                                         *)
(* A Python str is modelled as a sequence of one-character strings, so     *)
(* that split(), strip() and join() are computed and never assumed.        *)
(***************************************************************************)
EXTENDS Integers, Sequences, FiniteSets, TLC

VARIABLES
    uploaded,            \* the parsed upload: extension, PDF pages, DOCX paragraphs
    pages_per_chunk,     \* sidebar number input
    words_per_page,      \* sidebar number input
    chunks,              \* list of (text, (start_page, end_page))
    sections,            \* the texts split_text_into_chunks yields
    max_words,           \* argument of split_text_into_chunks
    pc,                  \* position in the script
    chunk_i,             \* 1-based index of the chunk the driver loop is on
    attempt_number,      \* tenacity's attempt counter for the current call
    edited,              \* the local `edited` of the driver loop
    edited_blocks,       \* the accumulator of the driver loop
    calls,               \* the remote calls made so far, in order
    doc,                 \* paragraphs added to the output Document
    merged_text,         \* "\n\n".join(edited_blocks)
    offered,             \* download buttons shown
    STYLE_RULESETS,      \* the module-level table of rule lists
    style,               \* sidebar selectbox
    smart_quotes,        \* sidebar checkbox
    preserve_dashes,     \* sidebar checkbox
    normalize_ellipses,  \* sidebar checkbox
    style_name,          \* argument of the last build_style_instructions call
    style_rules          \* value the last build_style_instructions call returned

vars == <<uploaded, pages_per_chunk, words_per_page, chunks, sections, max_words,
          pc, chunk_i, attempt_number, edited, edited_blocks, calls, doc, merged_text,
          offered,
          STYLE_RULESETS, style, smart_quotes, preserve_dashes, normalize_ellipses,
          style_name, style_rules>>

chunkVars == <<uploaded, pages_per_chunk, words_per_page, chunks, sections, max_words>>
runVars == <<chunk_i, attempt_number, edited, edited_blocks, calls, doc, merged_text, offered>>
sidebarVars == <<style, smart_quotes, preserve_dashes, normalize_ellipses>>
styleVars == <<STYLE_RULESETS, style_name, style_rules>>

-----------------------------------------------------------------------------
(* Bounds of the model *)

MaxPages == 4        \* pages of an uploaded PDF (chunker runs)
MaxParas == 3        \* paragraphs of an uploaded DOCX
MaxP == 3            \* pages_per_chunk
MaxW == 3            \* words_per_page
MaxMaxWords == 2     \* max_words of split_text_into_chunks
MaxRunPages == 2     \* pages of the PDF uploaded to a driver run
MaxRunP == 2         \* pages_per_chunk of a driver run

-----------------------------------------------------------------------------
(* Python str and list primitives *)

Min(a, b) == IF a < b THEN a ELSE b
Max(a, b) == IF a > b THEN a ELSE b

\* the characters str.split() and str.strip() treat as whitespace
WS == {" ", "\n"}

RECURSIVE lstrip(_)
lstrip(s) == IF s # <<>> /\ Head(s) \in WS THEN lstrip(Tail(s)) ELSE s

RECURSIVE rstrip(_)
rstrip(s) == IF s # <<>> /\ s[Len(s)] \in WS THEN rstrip(SubSeq(s, 1, Len(s) - 1)) ELSE s

\* str.strip()
strip(s) == rstrip(lstrip(s))

RECURSIVE SplitFrom(_, _)
SplitFrom(s, cur) ==
    IF s = <<>> THEN (IF cur = <<>> THEN <<>> ELSE <<cur>>)
    ELSE IF Head(s) \in WS
         THEN (IF cur = <<>> THEN <<>> ELSE <<cur>>) \o SplitFrom(Tail(s), <<>>)
         ELSE SplitFrom(Tail(s), Append(cur, Head(s)))

\* str.split() without a separator: runs of whitespace separate, no empty word
split(s) == SplitFrom(s, <<>>)

RECURSIVE join(_, _)
\* sep.join(items)
join(sep, items) ==
    IF items = <<>> THEN <<>>
    ELSE IF Len(items) = 1 THEN items[1]
    ELSE items[1] \o sep \o join(sep, Tail(items))

RECURSIVE SplitParaFrom(_, _)
SplitParaFrom(s, cur) ==
    IF s = <<>> THEN <<cur>>
    ELSE IF Len(s) >= 2 /\ s[1] = "\n" /\ s[2] = "\n"
         THEN <<cur>> \o SplitParaFrom(SubSeq(s, 3, Len(s)), <<>>)
         ELSE SplitParaFrom(Tail(s), Append(cur, Head(s)))

\* str.split("\n\n"): leftmost non-overlapping separators, empty pieces kept
split_blank_line(s) == SplitParaFrom(s, <<>>)

\* words[a:b] with 0-based a, b already clamped to len(words)
Slice(words, a, b) == SubSeq(words, a + 1, b)

\* round(num/den) for num >= 0, den >= 1: Python 3 rounds a half to the even
\* neighbour.  start + n/W - 1 is computed in floats; its distance from a half
\* is 0 or at least 1/(2W), far above the float error, so the exact quotient
\* rounds as the float does.
PyRound(num, den) ==
    LET q == num \div den
        r == num % den
    IN  IF 2 * r < den THEN q
        ELSE IF 2 * r > den THEN q + 1
        ELSE IF q % 2 = 0 THEN q ELSE q + 1

-----------------------------------------------------------------------------
(* Chunkers *)

\* reader.pages[p].extract_text() or "", "" when the extraction raises
\* (an IndexError of reader.pages[p] is raised inside the same try)
PageText(pages, p) ==
    IF p + 1 \in DOMAIN pages /\ pages[p + 1].kind = "text" THEN pages[p + 1].text ELSE <<>>

ChunkEndNoClamp(start, P, total_pages) == start + P

\* end = min(start + pages_per_chunk, total_pages)
ChunkEnd(start, P, total_pages) == Min(start + P, total_pages)

RECURSIVE PdfLoop(_, _, _, _)
PdfLoop(pages, P, start, acc) ==
    IF start >= Len(pages) THEN acc
    ELSE LET end == ChunkEnd(start, P, Len(pages))
             buf == [k \in 1..(end - start) |-> PageText(pages, start + k - 1)]
             text == join(<<"\n">>, buf)
         IN  PdfLoop(pages, P, start + P,
                     Append(acc, [text |-> text, start_page |-> start + 1, end_page |-> end]))

extract_pdf_chunks(pages, P) == PdfLoop(pages, P, 0, <<>>)

\* "\n".join(p.text for p in doc.paragraphs), also utils.read_docx
read_docx(paragraphs) == join(<<"\n">>, paragraphs)

ChunkWordsOffByOne(words, start_idx, end_idx) == Slice(words, start_idx + 1, end_idx)

\* chunk_words = words[start_idx:end_idx]
ChunkWords(words, start_idx, end_idx) == Slice(words, start_idx, end_idx)

RECURSIVE DocxLoop(_, _, _, _, _, _)
DocxLoop(words, W, words_per_chunk, start_idx, page_start_num, acc) ==
    IF ~(start_idx < Len(words)) THEN acc
    ELSE LET end_idx == Min(start_idx + words_per_chunk, Len(words))
             chunk_words == ChunkWords(words, start_idx, end_idx)
             chunk_text == join(<<" ">>, chunk_words)
             den == Max(1, W)
             \* page_start_num + len(chunk_words)/max(1, W) - 1 as one quotient
             page_end_num == PyRound((page_start_num - 1) * den + Len(chunk_words), den)
         IN  DocxLoop(words, W, words_per_chunk, end_idx, page_end_num + 1,
                      Append(acc, [text |-> chunk_text, start_page |-> page_start_num,
                                   end_page |-> page_end_num]))

extract_docx_chunks(paragraphs, P, W) ==
    DocxLoop(split(read_docx(paragraphs)), W, W * P, 0, 1, <<>>)

RECURSIVE SplitLoop(_, _, _, _)
SplitLoop(words, m, k, acc) ==
    IF k >= Len(words) THEN acc
    ELSE SplitLoop(words, m, k + m,
                   Append(acc, join(<<" ">>, Slice(words, k, Min(k + m, Len(words))))))

\* utils.split_text_into_chunks, the generator's values in order
split_text_into_chunks(text, m) == SplitLoop(split(text), m, 0, <<>>)

-----------------------------------------------------------------------------
(* Style rules *)

StyleNames == {"Chicago", "APA", "MLA", "Plain Novel"}

\* the literal bound to STYLE_RULESETS each time the script runs (rule texts
\* abbreviated; count and order per style as in the source)
BaseRulesets ==
    ("Chicago" :> << "Chicago: US English", "Chicago: curly quotes", "Chicago: em dashes",
                     "Chicago: serial comma", "Chicago: numbers spelled out",
                     "Chicago: ellipses", "Chicago: single space", "Chicago: proper nouns",
                     "Chicago: italics", "Chicago: paragraphing" >>) @@
    ("APA" :> << "APA: US English", "APA: double quotation marks", "APA: en dash",
                 "APA: single space", "APA: Oxford comma", "APA: headings",
                 "APA: ellipses", "APA: numbers", "APA: curly quotes if selected",
                 "APA: no citations" >>) @@
    ("MLA" :> << "MLA: US English", "MLA: curly quotes", "MLA: Oxford comma",
                 "MLA: single space", "MLA: em dash", "MLA: ellipses and capitalization",
                 "MLA: no citations" >>) @@
    ("Plain Novel" :> << "Plain: US English", "Plain: curly quotes", "Plain: em dashes",
                         "Plain: Oxford comma", "Plain: ellipses", "Plain: single space",
                         "Plain: spacing and indentation only" >>)

QuoteRule == "Normalize straight quotes to curly quotes"
DashRule == "Normalize dashes"
EllipsisRule == "Normalize ellipses to a single glyph"

\* the key dict.get(style_name, STYLE_RULESETS["Plain Novel"]) reads
LookupKey(name) == IF name \in DOMAIN BaseRulesets THEN name ELSE "Plain Novel"

\* The lists the call can reach: those of the table, plus the local name
\* `rules` when it is bound to a list of its own.  ref names the list `rules`
\* is bound to.
RulesAlias(table, name) == [heap |-> table, ref |-> LookupKey(name)]

\* rules = STYLE_RULESETS.get(...)[:]  -- the slice makes a new list
RulesCopy(table, name) ==
    [heap |-> table @@ ("rules" :> table[LookupKey(name)]), ref |-> "rules"]

\* rules.append(rule): mutates the list `rules` is bound to
ListAppend(b, rule) == [b EXCEPT !.heap = [@ EXCEPT ![b.ref] = Append(@, rule)]]

\* the call's effect on the table and its return value
build_style_instructions(table, name, sq, pd, ne) ==
    LET b0 == RulesCopy(table, name)
        b1 == IF sq THEN ListAppend(b0, QuoteRule) ELSE b0
        b2 == IF pd THEN ListAppend(b1, DashRule) ELSE b1
        b3 == IF ne THEN ListAppend(b2, EllipsisRule) ELSE b2
        rules == b3.heap[b3.ref]
    IN  [table |-> [n \in DOMAIN table |-> b3.heap[n]],
         result |-> <<"\n- ">> \o join(<<"\n- ">>, [k \in 1..Len(rules) |-> <<rules[k]>>])]

-----------------------------------------------------------------------------
(* Edit call *)

\* stop_after_attempt(4)
MaxAttempts == 4

StopOneLate(n) == n > MaxAttempts

\* tenacity's stop condition, asked after a failed attempt
Stop(n) == n >= MaxAttempts

\* what client.responses.create can do: return a response, or raise
Outcomes == {"ok", "transient", "fatal"}

\* @retry without retry=: tenacity's default retries on every Exception
IsRetried(outcome) == outcome \in {"transient", "fatal"}

\* responses of the service: output_text present (with its text) or absent
Responses ==
    { [has_text |-> TRUE, text |-> <<"a">>],
      [has_text |-> TRUE, text |-> <<" ", "a", "\n", "\n", "b", "\n">>],
      [has_text |-> FALSE, text |-> <<>>] }

\* out = resp.output_text if hasattr(resp, "output_text") else ""; out.strip()
OutputOf(resp) == strip(IF resp.has_text THEN resp.text ELSE <<>>)

IsBlankNoStrip(text) == text = <<>>

\* not text.strip()
IsBlank(text) == strip(text) = <<>>

-----------------------------------------------------------------------------
(* Document builder *)

RECURSIVE AddParagraphs(_, _)
\* for para in block.split("\n\n"): doc.add_paragraph(para.strip())
AddParagraphs(pieces, acc) ==
    IF pieces = <<>> THEN acc
    ELSE AddParagraphs(Tail(pieces), Append(acc, strip(Head(pieces))))

RECURSIVE BuildLoop(_, _)
BuildLoop(blocks, acc) ==
    IF blocks = <<>> THEN acc
    ELSE BuildLoop(Tail(blocks), AddParagraphs(split_blank_line(Head(blocks)), acc))

\* the paragraphs of the Document, in the order they were added
build_manuscript_docx(paragraphs) == BuildLoop(paragraphs, <<>>)

PrependBlock(blocks, e) == <<e>> \o blocks

\* edited_blocks.append(edited)
AppendBlock(blocks, e) == Append(blocks, e)

-----------------------------------------------------------------------------
(* Inputs *)

SeqsUpTo(S, n) == UNION { [1..k -> S] : k \in 0..n }

\* a page of the PDF: extract_text() returns text, returns None, or raises
PdfPages ==
    { [kind |-> "text", text |-> <<"a">>],
      [kind |-> "none", text |-> <<>>],
      [kind |-> "raises", text |-> <<>>] }

RunPages == { [kind |-> "text", text |-> <<"a">>], [kind |-> "none", text |-> <<>>] }

ParaTexts == { <<>>, <<"a">>, <<"b">>, <<"a", " ", "b">> }

PdfUpload(pages) == [ext |-> "pdf", pages |-> pages, paragraphs |-> <<>>]
DocxUpload(paragraphs) == [ext |-> "docx", pages |-> <<>>, paragraphs |-> paragraphs]

\* what a call that raised leaves in the place of a response
NoResponse == [has_text |-> FALSE, text |-> <<>>]

ChunkIdle == chunks = <<>> /\ sections = <<>> /\ max_words = 0

RunIdle ==
    /\ chunk_i = 0 /\ attempt_number = 0 /\ edited = <<>> /\ edited_blocks = <<>>
    /\ calls = <<>> /\ doc = <<>> /\ merged_text = <<>> /\ offered = {}

\* the widgets' default values
SidebarDefault ==
    /\ style = "Chicago" /\ smart_quotes = TRUE /\ preserve_dashes = TRUE
    /\ normalize_ellipses = TRUE

StyleIdle == STYLE_RULESETS = BaseRulesets /\ style_name = "" /\ style_rules = <<>>

-----------------------------------------------------------------------------
(* Chunking an upload *)

InitChunk ==
    /\ uploaded \in { PdfUpload(p) : p \in SeqsUpTo(PdfPages, MaxPages) }
                    \cup { DocxUpload(p) : p \in SeqsUpTo(ParaTexts, MaxParas) }
    /\ pages_per_chunk \in 1..MaxP
    /\ words_per_page \in 1..MaxW
    /\ pc = "uploaded"
    /\ ChunkIdle /\ RunIdle /\ SidebarDefault /\ StyleIdle

\* the script from the upload to "Prepared n chunks"
PrepareChunks ==
    /\ pc = "uploaded"
    /\ chunks' = IF uploaded.ext = "pdf"
                 THEN extract_pdf_chunks(uploaded.pages, pages_per_chunk)
                 ELSE extract_docx_chunks(uploaded.paragraphs, pages_per_chunk, words_per_page)
    /\ pc' = "ready"
    /\ UNCHANGED <<uploaded, pages_per_chunk, words_per_page, sections, max_words>>
    /\ UNCHANGED <<runVars, sidebarVars, styleVars>>

\* utils: list(split_text_into_chunks(read_docx(file), max_words))
SplitText ==
    /\ pc = "uploaded"
    /\ uploaded.ext = "docx"
    /\ \E m \in 1..MaxMaxWords :
          /\ max_words' = m
          /\ sections' = split_text_into_chunks(read_docx(uploaded.paragraphs), m)
    /\ pc' = "split"
    /\ UNCHANGED <<uploaded, pages_per_chunk, words_per_page, chunks>>
    /\ UNCHANGED <<runVars, sidebarVars, styleVars>>

NextChunk == PrepareChunks \/ SplitText

SpecChunk == InitChunk /\ [][NextChunk]_vars

-----------------------------------------------------------------------------
(* The style table across the calls of one script run *)

InitStyle ==
    /\ uploaded = PdfUpload(<<>>)
    /\ pages_per_chunk = 1 /\ words_per_page = 1
    /\ pc = "uploaded"
    /\ ChunkIdle /\ RunIdle /\ StyleIdle
    /\ style \in StyleNames
    /\ smart_quotes \in BOOLEAN /\ preserve_dashes \in BOOLEAN
    /\ normalize_ellipses \in BOOLEAN

\* a widget changes: Streamlit runs the script again from the top, which
\* binds STYLE_RULESETS to the literal anew
Rerun ==
    /\ style' \in StyleNames
    /\ smart_quotes' \in BOOLEAN /\ preserve_dashes' \in BOOLEAN
    /\ normalize_ellipses' \in BOOLEAN
    /\ STYLE_RULESETS' = BaseRulesets /\ style_name' = "" /\ style_rules' = <<>>
    /\ UNCHANGED <<chunkVars, runVars, pc>>

CallBuildStyleInstructions ==
    /\ \E name \in StyleNames \cup {"Unknown"} :
          LET b == build_style_instructions(STYLE_RULESETS, name, smart_quotes,
                                            preserve_dashes, normalize_ellipses)
          IN  /\ STYLE_RULESETS' = b.table
              /\ style_name' = name
              /\ style_rules' = b.result
    /\ UNCHANGED <<chunkVars, runVars, sidebarVars, pc>>

NextStyle == Rerun \/ CallBuildStyleInstructions

SpecStyle == InitStyle /\ [][NextStyle]_vars

-----------------------------------------------------------------------------
(* A "Process Manuscript" run *)

InitRun ==
    /\ uploaded \in { PdfUpload(p) : p \in SeqsUpTo(RunPages, MaxRunPages) }
    /\ pages_per_chunk \in 1..MaxRunP
    /\ words_per_page = 1
    /\ pc = "uploaded"
    /\ ChunkIdle /\ RunIdle /\ SidebarDefault /\ StyleIdle

\* where the loop goes after chunk i: the next chunk, or past the loop
LoopTo(i) == IF i <= Len(chunks) THEN "edit" ELSE "assemble"

\* the button is pressed: edited_blocks = [] and the loop starts
ProcessClicked ==
    /\ pc = "ready"
    /\ edited_blocks' = <<>>
    /\ chunk_i' = 1
    /\ attempt_number' = 1
    /\ pc' = LoopTo(1)
    /\ UNCHANGED <<edited, calls, doc, merged_text, offered>>
    /\ UNCHANGED <<chunkVars, sidebarVars, styleVars>>

\* edit_chunk_with_openai on a blank text: return "" before anything else
EditEmpty ==
    /\ pc = "edit"
    /\ IsBlank(chunks[chunk_i].text)
    /\ edited' = <<>>
    /\ pc' = "append"
    /\ UNCHANGED <<chunk_i, attempt_number, edited_blocks, calls, doc, merged_text, offered>>
    /\ UNCHANGED <<chunkVars, sidebarVars, styleVars>>

SwallowedByLoop(outcome) == "append"

\* an exception leaving edit_chunk_with_openai: the loop has no try/except,
\* so it ends the script run
Propagates(outcome) == "error"

\* one attempt of edit_chunk_with_openai on a non-blank text: the style
\* rules are built, the service is called, and tenacity decides what follows
EditAttempt ==
    /\ pc = "edit"
    /\ ~IsBlank(chunks[chunk_i].text)
    /\ LET b == build_style_instructions(STYLE_RULESETS, style, smart_quotes,
                                         preserve_dashes, normalize_ellipses)
       IN  /\ STYLE_RULESETS' = b.table
           /\ style_name' = style
           /\ style_rules' = b.result
    /\ \E o \in Outcomes : \E r \in (IF o = "ok" THEN Responses ELSE {NoResponse}) :
          /\ calls' = Append(calls, [chunk |-> chunk_i, attempt |-> attempt_number,
                                     text |-> chunks[chunk_i].text, outcome |-> o,
                                     response |-> r])
          /\ IF o = "ok"
             THEN /\ edited' = OutputOf(r)
                  /\ pc' = "append"
                  /\ UNCHANGED attempt_number
             ELSE IF IsRetried(o) /\ ~Stop(attempt_number)
             THEN /\ attempt_number' = attempt_number + 1
                  /\ pc' = "edit"
                  /\ UNCHANGED edited
             ELSE /\ pc' = Propagates(o)
                  /\ UNCHANGED <<edited, attempt_number>>
    /\ UNCHANGED <<chunk_i, edited_blocks, doc, merged_text, offered>>
    /\ UNCHANGED <<chunkVars, sidebarVars>>

\* edited_blocks.append(edited); progress; next iteration
AppendEdited ==
    /\ pc = "append"
    /\ edited_blocks' = AppendBlock(edited_blocks, edited)
    /\ chunk_i' = chunk_i + 1
    /\ attempt_number' = 1
    /\ pc' = LoopTo(chunk_i + 1)
    /\ UNCHANGED <<edited, calls, doc, merged_text, offered>>
    /\ UNCHANGED <<chunkVars, sidebarVars, styleVars>>

\* after the loop: build the DOCX, offer it, merge the text, offer it
Assemble ==
    /\ pc = "assemble"
    /\ doc' = build_manuscript_docx(edited_blocks)
    /\ merged_text' = join(<<"\n", "\n">>, edited_blocks)
    /\ offered' = {"docx", "txt"}
    /\ pc' = "done"
    /\ UNCHANGED <<chunk_i, attempt_number, edited, edited_blocks, calls>>
    /\ UNCHANGED <<chunkVars, sidebarVars, styleVars>>

NextRun ==
    \/ PrepareChunks
    \/ ProcessClicked
    \/ EditEmpty
    \/ EditAttempt
    \/ AppendEdited
    \/ Assemble

SpecRun == InitRun /\ [][NextRun]_vars

-----------------------------------------------------------------------------
(* Properties of the chunkers (SpecChunk) *)

CeilDiv(n, d) == (n + d - 1) \div d

RECURSIVE Flatten(_)
Flatten(ss) == IF ss = <<>> THEN <<>> ELSE Head(ss) \o Flatten(Tail(ss))

RECURSIVE Sum(_)
Sum(ns) == IF ns = <<>> THEN 0 ELSE Head(ns) + Sum(Tail(ns))

PdfChunked == pc = "ready" /\ uploaded.ext = "pdf"
DocxChunked == pc = "ready" /\ uploaded.ext = "docx"

\* first range starts at 1, each next range starts at the previous end + 1
Contiguous(cs) ==
    /\ cs # <<>> => cs[1].start_page = 1
    /\ \A k \in 1..(Len(cs) - 1) : cs[k + 1].start_page = cs[k].end_page + 1

\* C1: for N >= 0 pages and P >= 1, extract_pdf_chunks returns ceil(N/P)
\* sections; section k (0-based) has the range [k*P+1, min((k+1)*P, N)]; the
\* ranges are contiguous, do not overlap and cover [1, N] exactly.
C1_PdfRanges ==
    PdfChunked =>
        LET N == Len(uploaded.pages)
            P == pages_per_chunk
        IN  /\ Len(chunks) = CeilDiv(N, P)
            /\ \A k \in 0..(Len(chunks) - 1) :
                  /\ chunks[k + 1].start_page = k * P + 1
                  /\ chunks[k + 1].end_page = Min((k + 1) * P, N)
            /\ Contiguous(chunks)
            /\ \A page \in 1..N :
                  Cardinality({ k \in 1..Len(chunks) :
                      chunks[k].start_page <= page /\ page <= chunks[k].end_page }) = 1
            /\ \A k \in 1..Len(chunks) :
                  1 <= chunks[k].start_page /\ chunks[k].start_page <= chunks[k].end_page
                  /\ chunks[k].end_page <= N

\* four pages in chunks of three: two sections, the last one short
C1_Witness ==
    /\ PdfChunked /\ Len(uploaded.pages) = 4 /\ pages_per_chunk = 3
    /\ Len(chunks) = 2 /\ chunks[2].start_page = 4 /\ chunks[2].end_page = 4

\* the words of the texts `texts`, section by section
WordsOf(texts) == [k \in 1..Len(texts) |-> split(texts[k])]

\* the sections hold the words `words` in order, each but the last with `size`
Partitions(texts, words, size) ==
    LET ws == WordsOf(texts)
    IN  /\ Flatten(ws) = words
        /\ Sum([k \in 1..Len(ws) |-> Len(ws[k])]) = Len(words)
        /\ \A k \in 1..(Len(ws) - 1) : Len(ws[k]) = size

\* C2: the sections of word-estimated chunking (extract_docx_chunks, and
\* split_text_into_chunks with max_words >= 1), concatenated in order, are
\* the original word sequence: counts sum to the original count, nothing is
\* dropped, duplicated or reordered, and every section but the last holds
\* exactly W*P (max_words) words.
C2_WordsPreserved ==
    LET words == split(read_docx(uploaded.paragraphs))
    IN  /\ DocxChunked =>
              Partitions([k \in 1..Len(chunks) |-> chunks[k].text], words,
                         words_per_page * pages_per_chunk)
        /\ pc = "split" => Partitions(sections, words, max_words)

\* a DOCX chunked into a full section and a shorter last one, two distinct words
C2_Witness ==
    /\ DocxChunked /\ Len(chunks) >= 2
    /\ Len(split(chunks[1].text)) = words_per_page * pages_per_chunk
    /\ Len(split(chunks[Len(chunks)].text)) < words_per_page * pages_per_chunk
    /\ \E k \in 1..Len(chunks) : split(chunks[k].text) # split(chunks[1].text)

\* C10: the page ranges of extract_docx_chunks are contiguous and each range
\* spans exactly round(words_in_chunk / W) pages, whatever its start_page.
C10_PageSpanIsRoundedWords ==
    DocxChunked =>
        /\ Contiguous(chunks)
        /\ \A k \in 1..Len(chunks) :
              chunks[k].end_page - chunks[k].start_page + 1
                  = PyRound(Len(split(chunks[k].text)), words_per_page)

-----------------------------------------------------------------------------
(* Properties of a run (SpecRun) *)

ChunkIds == 1..Len(chunks)

\* the remote calls made for chunk j, in the order they were made
CallsFor(j) == SelectSeq(calls, LAMBDA c : c.chunk = j)

Failed(c) == c.outcome # "ok"

WhitespaceOnly(text) == \A k \in 1..Len(text) : text[k] \in WS

\* C3: for one non-empty section the service is called at most 4 times; a
\* call follows only failed calls; when the call returns, its last call
\* succeeded and that call's (trimmed) output is the result, so two failures
\* and a success are exactly 3 calls; an error surfaces only after exactly 4
\* failed calls, and no call follows it.
C3_BoundedRetry ==
    \A j \in ChunkIds :
        LET cs == CallsFor(j)
            n == Len(cs)
        IN  /\ n <= 4
            /\ \A k \in 1..n : cs[k].attempt = k
            /\ \A k \in 1..(n - 1) : Failed(cs[k])
            /\ (pc = "append" /\ chunk_i = j /\ n > 0) =>
                  /\ ~Failed(cs[n])
                  /\ edited = OutputOf(cs[n].response)
            /\ (pc = "error" /\ chunk_i = j) =>
                  /\ n = 4
                  /\ \A k \in 1..n : Failed(cs[k])
            /\ (n > 0 /\ n < 4 /\ Failed(cs[n])) => (pc = "edit" /\ chunk_i = j)

\* chunk 1 took two failures and a success, chunk 2 failed four times
C3_Witness ==
    /\ Len(chunks) >= 2
    /\ Len(CallsFor(1)) = 3
    /\ Failed(CallsFor(1)[1]) /\ Failed(CallsFor(1)[2]) /\ ~Failed(CallsFor(1)[3])
    /\ edited_blocks # <<>> /\ edited_blocks[1] = OutputOf(CallsFor(1)[3].response)
    /\ pc = "error" /\ chunk_i = 2 /\ Len(CallsFor(2)) = 4

\* C4: after a non-transient failure (authentication, malformed request) no
\* second call is made for that section, and the error surfaces at once.
C4_NoRetryAfterFatal ==
    \A k \in 1..Len(calls) :
        calls[k].outcome = "fatal" =>
            /\ \A m \in (k + 1)..Len(calls) : calls[m].chunk # calls[k].chunk
            /\ calls[k].attempt = 1
            /\ (k = Len(calls) => pc = "error")

\* the edit of chunk j has ended in a failure: its last call failed and the
\* call is no longer being retried
EditFailed(j) ==
    LET cs == CallsFor(j)
    IN  /\ cs # <<>>
        /\ Failed(cs[Len(cs)])
        /\ ~(pc = "edit" /\ chunk_i = j)

\* C5: if the edit of a chunk fails, the run offers nothing: no later chunk is
\* edited, the document is never built, no download is offered, and the
\* failed chunk gets no entry in edited_blocks.
C5_NoPartialOutput ==
    \A j \in ChunkIds :
        EditFailed(j) =>
            /\ pc = "error"
            /\ Len(edited_blocks) < j
            /\ \A c \in 1..Len(calls) : calls[c].chunk <= j
            /\ doc = <<>> /\ merged_text = <<>> /\ offered = {}

\* the first of two chunks failed; the second was never sent
C5_Witness ==
    /\ Len(chunks) >= 2 /\ ~WhitespaceOnly(chunks[2].text)
    /\ EditFailed(1) /\ pc = "error"
    /\ CallsFor(2) = <<>>

\* what edit_chunk_with_openai returned for chunk j, read off the calls
EditResult(j) ==
    LET cs == CallsFor(j)
    IN  IF cs = <<>> THEN <<>> ELSE OutputOf(cs[Len(cs)].response)

\* the paragraphs block j contributes: its pieces between blank lines, trimmed
PiecesOf(block) ==
    LET ps == split_blank_line(block) IN [k \in 1..Len(ps) |-> strip(ps[k])]

\* C6: edits are sequential and in index order: a call for chunk k+1 is made
\* only after the result of chunk k is in edited_blocks; edited_blocks[j] is
\* always the edit result of chunk j; after the loop there is one entry per
\* chunk, and the document and the merged text take them in that order.
C6_InOrder ==
    /\ \A c \in 1..Len(calls) :
          /\ calls[c].chunk <= Len(edited_blocks) + 1
          /\ calls[c].text = chunks[calls[c].chunk].text
          /\ c > 1 => calls[c - 1].chunk <= calls[c].chunk
    /\ Len(edited_blocks) <= Len(chunks)
    /\ \A j \in 1..Len(edited_blocks) : edited_blocks[j] = EditResult(j)
    /\ pc \in {"assemble", "done"} => Len(edited_blocks) = Len(chunks)
    /\ pc = "done" =>
          /\ doc = Flatten([j \in ChunkIds |-> PiecesOf(EditResult(j))])
          /\ merged_text = join(<<"\n", "\n">>, [j \in ChunkIds |-> EditResult(j)])

\* two chunks with different results, both assembled
C6_Witness ==
    /\ pc = "done" /\ Len(chunks) = 2
    /\ Len(edited_blocks) = 2 /\ edited_blocks[1] # edited_blocks[2]
    /\ CallsFor(1) # <<>> /\ CallsFor(2) # <<>>

\* C7: for an empty or whitespace-only chunk no remote call is made and the
\* result is the empty string, which still takes the chunk's slot, so the
\* edited blocks are as many as the chunks.
C7_BlankChunk ==
    /\ \A j \in ChunkIds :
          WhitespaceOnly(chunks[j].text) =>
              /\ CallsFor(j) = <<>>
              /\ (pc = "append" /\ chunk_i = j) => edited = <<>>
              /\ j <= Len(edited_blocks) => edited_blocks[j] = <<>>
              /\ ~(pc = "error" /\ chunk_i = j)
    /\ pc \in {"assemble", "done"} => Len(edited_blocks) = Len(chunks)

\* a whitespace-only (not empty) chunk kept its slot in a finished run
C7_Witness ==
    /\ pc = "done" /\ calls = <<>>
    /\ \E j \in ChunkIds : chunks[j].text # <<>> /\ WhitespaceOnly(chunks[j].text)
    /\ Len(edited_blocks) = Len(chunks)

RECURSIVE NonEmpty(_)
NonEmpty(ps) ==
    IF ps = <<>> THEN <<>>
    ELSE IF Head(ps) = <<>> THEN NonEmpty(Tail(ps)) ELSE <<Head(ps)>> \o NonEmpty(Tail(ps))

\* C9: build_manuscript_docx emits one paragraph per non-empty piece, in
\* order; a piece that is empty after trimming produces no paragraph, so an
\* empty edited section contributes none.
C9_EmptyParagraphsSkipped ==
    pc = "done" =>
        /\ doc = NonEmpty(Flatten([j \in 1..Len(edited_blocks) |-> PiecesOf(edited_blocks[j])]))
        /\ \A k \in 1..Len(doc) : doc[k] # <<>>

-----------------------------------------------------------------------------
(* Properties of the style table (SpecStyle) *)

\* the toggle rules that are switched on, in the order the code appends them
ToggleRules ==
    (IF smart_quotes THEN <<QuoteRule>> ELSE <<>>)
    \o (IF preserve_dashes THEN <<DashRule>> ELSE <<>>)
    \o (IF normalize_ellipses THEN <<EllipsisRule>> ELSE <<>>)

RECURSIVE Bullets(_)
Bullets(rules) == IF rules = <<>> THEN <<>> ELSE <<"\n- ", Head(rules)>> \o Bullets(Tail(rules))

\* C8: after any calls of build_style_instructions, with known or unknown
\* names and any toggles, every list of STYLE_RULESETS is as written in the
\* source, and the list built for a request is its base list followed by the
\* toggle rules of that request alone.
C8_TableUnchanged ==
    /\ STYLE_RULESETS = BaseRulesets
    /\ style_name # "" =>
          style_rules =
              Bullets((IF style_name \in StyleNames THEN BaseRulesets[style_name]
                       ELSE BaseRulesets["Plain Novel"]) \o ToggleRules)

\* an unknown name with all three toggles on
C8_Witness ==
    /\ style_name = "Unknown"
    /\ smart_quotes /\ preserve_dashes /\ normalize_ellipses
    /\ Len(style_rules) = 2 * (Len(BaseRulesets["Plain Novel"]) + 3)

====
